---- MODULE Spec2Model ----
(***************************************************************************)
(* zpart: the image shell and its partitioning subshell (ImageShell and    *)
(* PartedShell of _image_shell.py).                                        *)
(*                                                                         *)
(* A character is a one-character string, a Python str is a sequence of    *)
(* characters.  The shell's state is what one command handler leaves       *)
(* behind: what it wrote to stdout and stderr, the argument vector it      *)
(* handed to subprocess.check_call, the exception that left the handler,   *)
(* and the value its call of __parse_tbl returned.  The environment is the *)
(* external tool: the text and exit status of `parted <file> -s print -m`  *)
(* and the exit status of a mutating invocation, after which the tool has  *)
(* another table to report.  The image shell adds the attributes of the    *)
(* ImageShell object and the image file they are about.                    *)
(***************************************************************************)
EXTENDS Integers, Sequences, FiniteSets, TLC

VARIABLES
    tool,        \* what the external tool has to report (see PrintMachine)
    printOut,    \* stdout text of `parted print -m`, a sequence of characters
    printExit,   \* exit status of `parted print -m`
    cmd,         \* the command line the last handler served: <<name, args...>>
    parsed,      \* what __parse_tbl did in the last handler ("nocall" if not called)
    stdout,      \* lines the last handler printed
    stderr,      \* messages the last handler wrote to self.stderr
    calls,       \* argument vectors the last handler passed to check_call
    raised,      \* exception that left the last handler, or "none"
    requests,    \* the command lines served so far, each with the ids the tool had
    invoked,     \* every argument vector passed to check_call so far, in order
    image,       \* the image file on disk: whether it exists, its mtime, its content
    self         \* the ImageShell: _format, _size, __mtime and __ls_cache

vars ==
    <<tool, printOut, printExit, cmd, parsed, stdout, stderr, calls, raised,
      requests, invoked, image, self>>

----------------------------------------------------------------------------
(* Bounds of the model.                                                    *)

MaxLead  == 1    \* lines printed before the sentinel
MaxParts == 2    \* lines printed after the title line
MaxToks  == 7    \* ':'-separated tokens of a generated title line
MaxShellParts == 2   \* partition lines of the reports the command handlers see
MaxRequests == 2     \* command lines of a session
MaxMtime == 2        \* times the image file is written after the shell is opened

----------------------------------------------------------------------------
(* Python str methods, on sequences of characters.                         *)

NL == "\n"

\* s.lstrip(chars)
RECURSIVE LStrip(_, _)
LStrip(s, chars) ==
    IF s = <<>> THEN s
    ELSE IF Head(s) \in chars THEN LStrip(Tail(s), chars) ELSE s

\* s.rstrip(chars)
RECURSIVE RStrip(_, _)
RStrip(s, chars) ==
    IF s = <<>> THEN s
    ELSE IF s[Len(s)] \in chars THEN RStrip(SubSeq(s, 1, Len(s) - 1), chars) ELSE s

\* s.strip(chars): both ends, every leading and trailing occurrence
Strip(s, chars) == LStrip(RStrip(s, chars), chars)

\* the whitespace s.strip() removes
Whitespace == {" ", "\t", "\n", "\r"}

\* s.split(sep) for a one-character sep: never empty, "" gives [""]
\* s.find(c) from position k on, 1-based; 0 when c does not occur
RECURSIVE Find(_, _, _)
Find(s, c, k) ==
    IF k > Len(s) THEN 0
    ELSE IF s[k] = c THEN k ELSE Find(s, c, k + 1)

RECURSIVE Split(_, _)
Split(s, sep) ==
    LET k == Find(s, sep, 1)
    IN  IF k = 0 THEN <<s>>
        ELSE <<SubSeq(s, 1, k - 1)>> \o Split(SubSeq(s, k + 1, Len(s)), sep)

\* sep.join(toks)
RECURSIVE Join(_, _)
Join(toks, sep) ==
    IF toks = <<>> THEN <<>>
    ELSE IF Len(toks) = 1 THEN toks[1]
    ELSE toks[1] \o <<sep>> \o Join(Tail(toks), sep)

----------------------------------------------------------------------------
(* PartedShell.__parse_tbl                                                 *)

Sentinel == <<"B", "Y", "T", ";">>

\* rawlines = check_output(...).decode().rstrip('\n').split('\n')
RawLines(text) == Split(RStrip(text, {NL}), NL)

\* rawlines[i].strip() == 'BYT;', i 0-based
IsSentinel(line) == Strip(line, Whitespace) = Sentinel

\* The search loop from its iteration i on (i 0-based): the value of i it
\* leaves behind, one past the first sentinel line (i += 1; break), else the
\* last value range(len(rawlines)) gave it.
RECURSIVE SearchLoop(_, _)
SearchLoop(rawlines, i) ==
    IF IsSentinel(rawlines[i + 1]) THEN i + 1
    ELSE IF i + 1 >= Len(rawlines) THEN i
    ELSE SearchLoop(rawlines, i + 1)

\* i = 0, then the loop; rawlines is never empty (split gives at least [''])
LoopIndex(rawlines) == SearchLoop(rawlines, 0)

\* the line split with its ';' left on
LineToks_nostrip(rawlines, n) == Split(rawlines[n + 1], ":")

\* rawlines[n].strip(';').split(':'), n 0-based
LineToks(rawlines, n) == Split(Strip(rawlines[n + 1], {";"}), ":")

\* the two title tokens in the other order
TitleData_swapped(toks) == << <<toks[2], toks[6]>> >>

\* data = [ [toks[5], toks[1]] ]
TitleData(toks) == << <<toks[6], toks[2]>> >>

Header ==
    << <<"i", "d">>, <<"s", "t", "a", "r", "t">>, <<"e", "n", "d">>,
       <<"l", "e", "n", "g", "t", "h">>,
       <<"f", "i", "l", "e", "s", "y", "s", "t", "e", "m">>,
       <<"t", "y", "p", "e">>, <<"f", "l", "a", "g", "s">> >>

\* the loop started one line late: range(i + 2, len(rawlines))
PartRows_skipfirst(rawlines, i) ==
    [j \in 1..(Len(rawlines) - i - 2) |-> LineToks(rawlines, i + j + 1)]

\* the rows appended by the loop over range(i + 1, len(rawlines))
PartRows(rawlines, i) ==
    [j \in 1..(Len(rawlines) - i - 1) |-> LineToks(rawlines, i + j)]

None == [ret |-> "None", data |-> <<>>]
IndexError == [ret |-> "IndexError", data |-> <<>>]
Returned(data) == [ret |-> "list", data |-> data]

ParseTbl(exit, text) ==
    IF exit # 0 THEN None
    ELSE LET rawlines == RawLines(text)
             i == LoopIndex(rawlines)
         IN  IF i >= Len(rawlines) THEN None
             ELSE LET toks == LineToks(rawlines, i)
                  IN  IF Len(toks) < 6 THEN IndexError
                      ELSE IF i + 1 >= Len(rawlines) THEN Returned(TitleData(toks))
                      ELSE Returned(TitleData(toks) \o <<Header>> \o PartRows(rawlines, i))

\* The report a returned value encodes, as do_show tells them apart:
\* `not data`, `not data[0]`, `len(data) <= 2`, else the table is printed.
IsUnparseable(p) == p.ret = "None"
IsNoTable(p) == p.ret = "list" /\ p.data[1] = <<>>
IsTableOnly(p) == p.ret = "list" /\ p.data[1] # <<>> /\ Len(p.data) <= 2
IsTableWithPartitions(p) == p.ret = "list" /\ p.data[1] # <<>> /\ Len(p.data) > 2

\* data[2:], the rows do_show prints under the header and _ids reads
Records(p) ==
    [k \in 1..(IF p.ret = "list" /\ Len(p.data) > 2 THEN Len(p.data) - 2 ELSE 0) |->
        p.data[k + 2]]

\* every element str.split returns is a str
PyStr(chars) == [py |-> "str", val |-> chars]

\* PartedShell._ids: None (here <<>>; the list built is never empty) or the ids
Ids(p) ==
    IF p.ret # "list" \/ Len(p.data) < 3 THEN <<>>
    ELSE [k \in 1..(Len(p.data) - 2) |-> p.data[k + 2][1]]

----------------------------------------------------------------------------
(* The external tool.  `tool` is what parted has to report: the lines it   *)
(* prints before the sentinel, the sentinel line if it prints one, and the *)
(* token lists of the title line and of the partition lines.  printOut is  *)
(* that report as `print -m` writes it: tokens joined by ':', every record *)
(* ended by ';', every line by a newline.                                  *)

RenderLine(toks) == Join(toks, ":") \o <<";">>

RenderLines(tokss) == [k \in 1..Len(tokss) |-> RenderLine(tokss[k])]

RECURSIVE Text(_)
Text(lines) == IF lines = <<>> THEN <<>> ELSE Head(lines) \o <<NL>> \o Text(Tail(lines))

PrintMachine(t) ==
    Text(t.lead \o t.sentinel \o RenderLines(t.title) \o RenderLines(t.parts))

\* one character per token position of a generated title line
Fld == <<"a", "b", "c", "d", "e", "f", "g", "h", "k">>

\* n one-character tokens, the 7th empty as in parted's title line
FieldToks(n) == [k \in 1..n |-> IF k = 7 THEN <<>> ELSE <<Fld[k]>>]

TitleToks == {FieldToks(n) : n \in 1..MaxToks}

\* id:start:end:length:filesystem:type:flags
PartToks(id, flags) == <<id, <<"s">>, <<"e">>, <<"l">>, <<>>, <<"p">>, flags>>

PartTokLists ==
    {PartToks(<<"1">>, <<>>), PartToks(<<"1">>, <<"b">>),
     PartToks(<<"2">>, <<"b", ",", " ", "e">>), << <<"3">> >>}

SentinelLines == {Sentinel, <<" ">> \o Sentinel \o <<" ">>}

\* lines that are not the sentinel: blank, the marker without its ';', text
OtherLines == {<<>>, <<"B", "Y", "T">>, <<"x", ":", "y">>}

SeqsUpTo(S, n) == UNION {[1..m -> S] : m \in 0..n}

NoTool == [lead |-> <<>>, sentinel |-> <<>>, title |-> <<>>, parts |-> <<>>]

\* every report built from the given pieces; partition lines follow a title line
ToolsOf(leads, sentinels, titles, partss) ==
    {t \in [lead : leads,
            sentinel : {<<>>} \cup {<<l>> : l \in sentinels},
            title : {<<>>} \cup {<<toks>> : toks \in titles},
            parts : partss] :
        t.title = <<>> => t.parts = <<>>}

Tools ==
    ToolsOf(SeqsUpTo(OtherLines, MaxLead), SentinelLines, TitleToks,
            SeqsUpTo(PartTokLists, MaxParts))

\* the reports the command handlers are run against
ShellTools ==
    ToolsOf({<<>>}, {Sentinel}, {FieldToks(3), FieldToks(7)},
            SeqsUpTo({PartToks(<<"1">>, <<>>), PartToks(<<"2">>, <<"b">>)},
                     MaxShellParts))

\* the partition numbers the tool hands out
Digits == <<"1", "2", "3", "4", "5">>

HasId(parts, id) == \E m \in 1..Len(parts) : parts[m][1] = id

\* the lowest partition number no line of the report carries
FreeId(parts) ==
    LET k == CHOOSE n \in 1..(Len(parts) + 1) :
                 /\ ~HasId(parts, <<Digits[n]>>)
                 /\ \A j \in 1..(n - 1) : HasId(parts, <<Digits[j]>>)
    IN  <<Digits[k]>>

\* the report of an image with a partition table: sentinel and full title line
HasLabel(t) == t.sentinel # <<>> /\ t.title # <<>> /\ Len(t.title[1]) >= 6

\* whether the tool can carry the command out: a label can always be
\* written, a partition needs a label, room and a start before its end, a
\* flag needs its partition
ToolCan(t, cmdlist) ==
    IF cmdlist[1] = "mklabel" THEN TRUE
    ELSE IF cmdlist[1] = "mkpart"
    THEN /\ HasLabel(t)
         /\ Len(t.parts) < MaxShellParts
         /\ cmdlist[3] = "0%" /\ cmdlist[4] = "100%"
    ELSE HasLabel(t) /\ HasId(t.parts, cmdlist[2])

\* a partition line with its flags token set ("b") or cleared
Flagged(toks, state) == [toks EXCEPT ![7] = IF state = "on" THEN <<"b">> ELSE <<>>]

\* what the tool reports once it has carried the command out: mklabel leaves
\* a new table without partitions, mkpart one more partition, set a flag on
\* or off on the partition named
ToolAfter(t, cmdlist) ==
    IF cmdlist[1] = "mklabel"
    THEN [lead |-> <<>>, sentinel |-> <<Sentinel>>, title |-> <<FieldToks(7)>>,
          parts |-> <<>>]
    ELSE IF cmdlist[1] = "mkpart"
    THEN [t EXCEPT !.parts = Append(t.parts, PartToks(FreeId(t.parts), <<>>))]
    ELSE [t EXCEPT !.parts =
              [m \in 1..Len(t.parts) |->
                  IF t.parts[m][1] = cmdlist[2]
                  THEN Flagged(t.parts[m], cmdlist[4])
                  ELSE t.parts[m]]]

----------------------------------------------------------------------------
(* The command handlers.                                                   *)

File == "disk.img"

\* PartedShell._parted_cmd
PartedCmd == <<"parted", File, "-s">>

NoCall == [ret |-> "nocall", data |-> <<>>]

\* the list with its last entry lost
TblFmts_nosun == {"bsd", "dvh", "gpt", "loop", "mac", "msdos", "pc98"}

\* PartedShell.__tbl_fmts
TblFmts == {"bsd", "dvh", "gpt", "loop", "mac", "msdos", "pc98", "sun"}

\* PartedShell.__mkpart_types
MkpartTypes == {"primary", "logical", "extended"}

\* the list with its last entry lost
PartFlags_nopalo ==
    {"boot", "root", "swap", "hidden", "raid", "lvm", "lba", "legacy_boot"}

\* PartedShell.__part_flags
PartFlags ==
    {"boot", "root", "swap", "hidden", "raid", "lvm", "lba", "legacy_boot", "palo"}

\* the list do_set tests state against
States == {"on", "off"}

\* what the user types: every name the help texts list, and one they do not
ArgFmts == {"bsd", "dvh", "gpt", "loop", "mac", "msdos", "pc98", "sun", "xfs"}
ArgTypes == {"primary", "logical", "extended", "swap"}
ArgStarts == {"0%", "junk"}
ArgEnds == {"100%", "0%"}
ArgIds == {<<"1">>, <<"2">>, <<"9">>}
ArgFlags ==
    {"boot", "root", "swap", "hidden", "raid", "lvm", "lba", "legacy_boot", "palo",
     "bootable"}
ArgStates == {"on", "off", "yes"}
ExitCodes == {0, 1}

\* the text of `print -m` left as it was before the tool ran
RunPartedCmd_stale(cmdlist) ==
    \E rc \in ExitCodes :
        /\ rc = 0 => ToolCan(tool, cmdlist)
        /\ stdout' = <<"cmdstr">>
        /\ calls' = <<PartedCmd \o cmdlist>>
        /\ raised' = IF rc # 0 THEN "CalledProcessError" ELSE "none"
        /\ tool' = IF rc = 0 THEN ToolAfter(tool, cmdlist) ELSE tool
        /\ UNCHANGED <<printExit, printOut>>

\* the tool run a second time with the same command
RunPartedCmd_twice(cmdlist) ==
    \E rc \in ExitCodes :
        /\ rc = 0 => ToolCan(tool, cmdlist)
        /\ stdout' = <<"cmdstr">>
        /\ calls' = <<PartedCmd \o cmdlist, PartedCmd \o cmdlist>>
        /\ raised' = IF rc # 0 THEN "CalledProcessError" ELSE "none"
        /\ tool' = IF rc = 0 THEN ToolAfter(tool, cmdlist) ELSE tool
        /\ printExit' = IF rc = 0 THEN 0 ELSE printExit
        /\ printOut' = IF rc = 0 THEN PrintMachine(ToolAfter(tool, cmdlist)) ELSE printOut

\* PartedShell._run_parted_cmd(cmdlist), the tool exiting with rc: the command
\* line is printed, check_call runs it and raises on a non-zero exit.  A run
\* that exits with 0 has changed what the tool reports from then on.
RunPartedCmd(cmdlist) ==
    \E rc \in ExitCodes :
        /\ rc = 0 => ToolCan(tool, cmdlist)
        /\ stdout' = <<"cmdstr">>
        /\ calls' = <<PartedCmd \o cmdlist>>
        /\ raised' = IF rc # 0 THEN "CalledProcessError" ELSE "none"
        /\ tool' = IF rc = 0 THEN ToolAfter(tool, cmdlist) ELSE tool
        /\ printExit' = IF rc = 0 THEN 0 ELSE printExit
        /\ printOut' = IF rc = 0 THEN PrintMachine(ToolAfter(tool, cmdlist)) ELSE printOut

\* what do_show prints for the value __parse_tbl returned
ShowLines(p) ==
    IF p.ret # "list" THEN <<"Cannot parse image.">>
    ELSE IF p.data[1] = <<>> THEN <<"Cannot find partition table.">>
    ELSE IF Len(p.data) <= 2 THEN <<"fmt  =", "size =", "Cannot find partitions.">>
    ELSE <<"fmt  =", "size =", "table">>

\* do_show once __parse_tbl has come back with p
ShowAfterParse(p) ==
    /\ cmd' = <<"show">>
    /\ parsed' = p
    /\ stderr' = <<>>
    /\ calls' = <<>>
    /\ IF p.ret = "IndexError"
       THEN stdout' = <<>> /\ raised' = "IndexError"
       ELSE stdout' = ShowLines(p) /\ raised' = "none"
    /\ UNCHANGED <<tool, printOut, printExit>>

do_show == ShowAfterParse(ParseTbl(printExit, printOut))

MktblArgv(fmt) == <<"mklabel", fmt>>

do_mktbl ==
    \E fmt \in ArgFmts :
        /\ cmd' = <<"mktbl", fmt>>
        /\ parsed' = NoCall
        /\ IF fmt \notin TblFmts
           THEN /\ stderr' = <<"mktbl: fmt is not one of tbl_fmts">>
                /\ stdout' = <<>> /\ calls' = <<>> /\ raised' = "none"
                /\ UNCHANGED <<tool, printOut, printExit>>
           ELSE /\ stderr' = <<>>
                /\ RunPartedCmd(MktblArgv(fmt))

\* start and end handed over in the other order
MkpartArgv_swapped(type, start, end) == <<"mkpart", type, end, start>>

MkpartArgv(type, start, end) == <<"mkpart", type, start, end>>

do_mkpart ==
    \E type \in ArgTypes, start \in ArgStarts, end \in ArgEnds :
        /\ cmd' = <<"mkpart", type, start, end>>
        /\ parsed' = NoCall
        /\ IF type \notin MkpartTypes
           THEN /\ stderr' = <<"mkpart: type is not one of mkpart_types">>
                /\ stdout' = <<>> /\ calls' = <<>> /\ raised' = "none"
                /\ UNCHANGED <<tool, printOut, printExit>>
           ELSE /\ stderr' = <<>>
                /\ RunPartedCmd(MkpartArgv(type, start, end))

InIds(id, ids) == \E k \in 1..Len(ids) : ids[k] = id

\* the messages do_set writes once ids is known to be non-empty, in order
SetErrors(id, flag, state, ids) ==
    (IF ~InIds(id, ids) THEN <<"set: id is not one of ids">> ELSE <<>>)
    \o (IF flag \notin PartFlags THEN <<"set: flag is not one of part_flags">> ELSE <<>>)
    \o (IF state \notin States THEN <<"set: state is not one of ['on', 'off']">> ELSE <<>>)

SetArgv(id, flag, state) == <<"set", id, flag, state>>

\* do_set once __parse_tbl, called by self._ids, has come back with p
SetAfterParse(p) ==
    LET ids == Ids(p)
    IN  \E id \in ArgIds, flag \in ArgFlags, state \in ArgStates :
        /\ cmd' = <<"set", id, flag, state>>
        /\ parsed' = p
        /\ IF p.ret = "IndexError"
           THEN /\ raised' = "IndexError"
                /\ stderr' = <<>> /\ stdout' = <<>> /\ calls' = <<>>
                /\ UNCHANGED <<tool, printOut, printExit>>
           ELSE IF ids = <<>>
           THEN /\ stderr' = <<"set: no partition found.">>
                /\ stdout' = <<>> /\ calls' = <<>> /\ raised' = "none"
                /\ UNCHANGED <<tool, printOut, printExit>>
           ELSE IF SetErrors(id, flag, state, ids) # <<>>
           THEN /\ stderr' = SetErrors(id, flag, state, ids)
                /\ stdout' = <<>> /\ calls' = <<>> /\ raised' = "none"
                /\ UNCHANGED <<tool, printOut, printExit>>
           ELSE /\ stderr' = <<>>
                /\ RunPartedCmd(SetArgv(id, flag, state))

do_set == SetAfterParse(ParseTbl(printExit, printOut))

----------------------------------------------------------------------------
(* ImageShell.  `image` is the file the shell was opened on: its mtime     *)
(* counts the times it has been written, and what virt-filesystems lists   *)
(* for it is a text of that mtime, empty for the filesystems and           *)
(* partitions of an image that has none.  `self` holds the attributes      *)
(* _format and _size, the stored __mtime (<<>> as long as no assignment    *)
(* has created the attribute) and the three entries of __ls_cache.         *)

PyNone == [py |-> "None", val |-> ""]

\* '{}'.format(value) and print(value)
Format(v) == IF v.py = "None" THEN "None" ELSE v.val

\* `not value` of None and of a str
Falsy(v) == v.py = "None" \/ v.val = ""

\* ImageShell.__attrs
Attrs == {"file", "format", "size"}

\* the names the class defines as properties without a setter
Properties == {"file"}

\* the keys of ImageShell.__ls_subcmd_map
LsSubcmds == {"dev", "fs", "part"}

LsSubcmdMap(subcmd) ==
    IF subcmd = "dev" THEN "--blkdevs"
    ELSE IF subcmd = "fs" THEN "--filesystems"
    ELSE "--partitions"

\* ImageShell._virt_cmd
VirtCmd == <<"virt-filesystems", "-a", File>>

\* what the user types
ArgAttrs == {"file", "format", "size", "name"}
ArgValues == {"raw", "1G"}
ArgSubcmds == {"dev", "fs", "part", "all"}

\* what qemu-img takes for a format and for a size
QemuFormats == {"raw", "qcow2"}
QemuSizes == {"1G"}

NoFile == [exists |-> FALSE, mtime |-> 0, parts |-> FALSE]

\* the files a shell can be opened on: none, or one with or without partitions
Images == {NoFile} \cup [exists : {TRUE}, mtime : {0}, parts : BOOLEAN]

\* the text virt-filesystems prints for the image as it is now
Listing(subcmd) ==
    IF subcmd = "dev" \/ image.parts
    THEN "lines of " \o subcmd \o " at mtime " \o ToString(image.mtime)
    ELSE ""

\* ImageShell.__init__ on the file img, qemu-img info reporting fmt or failing
Constructed(img, fmt) ==
    [format |-> IF img.exists /\ fmt # "" THEN PyStr(fmt) ELSE PyNone,
     size |-> IF img.exists /\ fmt # "" THEN PyStr("1G") ELSE PyNone,
     mtime |-> IF img.exists THEN <<img.mtime>> ELSE <<>>,
     ls_cache |-> [key \in LsSubcmds |-> PyNone]]

ImageInit ==
    /\ image \in Images
    /\ \E fmt \in QemuFormats \cup {""} : self = Constructed(image, fmt)

\* getattr(self, '_' + attr)
GetAttr(attr) == IF attr = "file" THEN PyStr(File) ELSE self[attr]

\* the handlers of ImageShell leave the partitioning subshell as it is
NoParted == UNCHANGED <<tool, printOut, printExit, parsed, requests, invoked>>

\* ImageShell.do_set
Image_do_set ==
    \E attr \in ArgAttrs, value \in ArgValues :
        /\ cmd' = <<"set", attr, value>>
        /\ stdout' = <<>> /\ calls' = <<>>
        /\ IF attr \notin Attrs
           THEN /\ stderr' = <<"get: illegal argument">>
                /\ raised' = "none"
                /\ UNCHANGED self
           ELSE IF attr \in Properties
           THEN /\ stderr' = <<>>
                /\ raised' = "AttributeError"
                /\ UNCHANGED self
           ELSE /\ stderr' = <<>>
                /\ raised' = "none"
                /\ self' = [self EXCEPT ![attr] = PyStr(value)]
        /\ UNCHANGED image
        /\ NoParted

\* the line do_show prints for an attribute
AttrLine(attr) == attr \o ":\t\t" \o Format(GetAttr(attr))

\* ImageShell.do_show, the command 'get'
Image_do_show ==
    \E args \in {<<>>} \cup {<<attr>> : attr \in ArgAttrs} :
        /\ cmd' = <<"get">> \o args
        /\ calls' = <<>> /\ raised' = "none"
        /\ IF args = <<>>
           THEN /\ stdout' = <<AttrLine("file"), AttrLine("format"), AttrLine("size")>>
                /\ stderr' = <<>>
           ELSE IF args[1] \notin Attrs
           THEN /\ stdout' = <<>>
                /\ stderr' = <<"get: illegal argument">>
           ELSE /\ stdout' = <<AttrLine(args[1])>>
                /\ stderr' = <<>>
        /\ UNCHANGED <<image, self>>
        /\ NoParted

\* ImageShell.do_create: list2cmdline raises on an attribute that is None;
\* qemu-img writes the file anew or fails
do_create ==
    /\ cmd' = <<"create">>
    /\ stderr' = <<>>
    /\ IF self.format.py = "None" \/ self.size.py = "None"
       THEN /\ raised' = "TypeError"
            /\ stdout' = <<>> /\ calls' = <<>>
            /\ UNCHANGED image
       ELSE \E rc \in ExitCodes :
            /\ rc = 0 => /\ self.format.val \in QemuFormats
                         /\ self.size.val \in QemuSizes
                         /\ image.exists => image.mtime < MaxMtime
            /\ stdout' = <<"cmdstr">>
            /\ calls' = << <<"qemu-img", "create", "-f", self.format.val, File,
                             self.size.val>> >>
            /\ raised' = IF rc # 0 THEN "CalledProcessError" ELSE "none"
            /\ image' = IF rc # 0 THEN image
                        ELSE [exists |-> TRUE,
                              mtime |-> IF image.exists THEN image.mtime + 1 ELSE 0,
                              parts |-> FALSE]
    /\ UNCHANGED self
    /\ NoParted

\* the fetch of __update_ls_cache: check_output raises on a non-zero exit,
\* which is how virt-filesystems ends on a file that does not exist; m is
\* what __mtime is by then
Fetch(subcmd, m) ==
    \E rc \in ExitCodes :
        /\ rc = 0 => image.exists
        /\ calls' = <<VirtCmd \o <<LsSubcmdMap(subcmd)>> >>
        /\ IF rc # 0
           THEN /\ raised' = "CalledProcessError"
                /\ stdout' = <<>>
                /\ self' = [self EXCEPT !.mtime = m]
           ELSE /\ raised' = "none"
                /\ stdout' = <<Listing(subcmd)>>
                /\ self' = [self EXCEPT !.mtime = m,
                                        !.ls_cache[subcmd] = PyStr(Listing(subcmd))]

\* ImageShell.do_ls with __update_ls_cache and _is_cache_valid: the validity
\* check is evaluated only for an entry that is not empty, reads __mtime and
\* overwrites it when the file's mtime differs
do_ls ==
    \E subcmd \in ArgSubcmds :
        /\ cmd' = <<"ls", subcmd>>
        /\ IF subcmd \notin LsSubcmds
           THEN /\ stderr' = <<"ls: subcmd is not one of the keys">>
                /\ stdout' = <<>> /\ calls' = <<>> /\ raised' = "none"
                /\ UNCHANGED self
           ELSE /\ stderr' = <<>>
                /\ IF Falsy(self.ls_cache[subcmd])
                   THEN Fetch(subcmd, self.mtime)
                   ELSE IF self.mtime = <<>>
                   THEN /\ raised' = "AttributeError"
                        /\ stdout' = <<>> /\ calls' = <<>>
                        /\ UNCHANGED self
                   ELSE IF self.mtime = <<image.mtime>>
                   THEN /\ raised' = "none"
                        /\ stdout' = <<Format(self.ls_cache[subcmd])>>
                        /\ calls' = <<>>
                        /\ UNCHANGED self
                   ELSE Fetch(subcmd, <<image.mtime>>)
        /\ UNCHANGED image
        /\ NoParted

\* the image written by another program, or by the tools of a subshell: what
\* the last handler left on the screen describes the image no longer
Modify ==
    /\ image.exists
    /\ image.mtime < MaxMtime
    /\ \E parts \in BOOLEAN :
           image' = [image EXCEPT !.mtime = @ + 1, !.parts = parts]
    /\ cmd' = <<>> /\ stdout' = <<>> /\ stderr' = <<>> /\ calls' = <<>>
    /\ raised' = "none"
    /\ UNCHANGED self
    /\ NoParted

----------------------------------------------------------------------------
(* One shell over one report.                                             *)

Idle ==
    /\ cmd = <<>>
    /\ parsed = NoCall
    /\ stdout = <<>>
    /\ stderr = <<>>
    /\ calls = <<>>
    /\ raised = "none"

\* the tool answers `print -m` with its report, or fails
ToolInit(tools) ==
    \/ /\ tool \in tools
       /\ printExit = 0
       /\ printOut = PrintMachine(tool)
    \/ /\ tool = NoTool
       /\ printExit = 1
       /\ printOut = <<>>

\* no history is kept
Unlogged == requests = <<>> /\ invoked = <<>>

\* the partitioning subshell is opened on a raw image, which its handlers
\* reach through the tool only
RawImage ==
    /\ image = [exists |-> TRUE, mtime |-> 0, parts |-> FALSE]
    /\ self = Constructed(image, "raw")

Subshell == UNCHANGED <<image, self>>

Init == ToolInit(ShellTools) /\ Idle /\ Unlogged /\ RawImage

Next ==
    \/ do_show /\ UNCHANGED <<requests, invoked>> /\ Subshell
    \/ do_mktbl /\ UNCHANGED <<requests, invoked>> /\ Subshell
    \/ do_mkpart /\ UNCHANGED <<requests, invoked>> /\ Subshell
    \/ do_set /\ UNCHANGED <<requests, invoked>> /\ Subshell

Spec == Init /\ [][Next]_vars

\* The parser on its own: every generated report, parsed by `show`.
InitParse == ToolInit(Tools) /\ Idle /\ Unlogged /\ RawImage

NextParse == do_show /\ UNCHANGED <<requests, invoked>> /\ Subshell

SpecParse == InitParse /\ [][NextParse]_vars

\* The image shell: no partitioning subshell is open.
InitImage ==
    /\ ImageInit
    /\ Idle /\ Unlogged
    /\ tool = NoTool /\ printExit = 1 /\ printOut = <<>>

NextImage ==
    \/ Image_do_set
    \/ Image_do_show
    \/ do_create
    \/ do_ls
    \/ Modify

SpecImage == InitImage /\ [][NextImage]_vars

----------------------------------------------------------------------------
(* Claims about the parser, checked under SpecParse.                       *)

Shown == cmd = <<"show">> /\ printExit = 0

\* the tool printed something other than blank lines
NonBlank == \E k \in 1..Len(printOut) : printOut[k] \notin Whitespace

\* sentinel, then a title line of at least six tokens
WellFormed ==
    /\ tool.sentinel # <<>>
    /\ tool.title # <<>>
    /\ Len(tool.title[1]) >= 6

\* C1: a print output with no line equal to 'BYT;' after trimming is parsed to
\* None (Unparseable): no line is taken for a title line, nothing is raised.
C1_NoSentinelIsUnparseable ==
    (Shown /\ NonBlank /\ tool.sentinel = <<>>) =>
        (IsUnparseable(parsed) /\ raised = "none")

\* C2: leading lines, the sentinel, a title line and n >= 0 partition lines
\* parse to exactly n partition records, the k-th with the first token of the
\* k-th line as its id, and _ids gives those ids in the same order.
C2_OneRecordPerLine ==
    (Shown /\ WellFormed) =>
        /\ parsed.ret = "list"
        /\ Len(Records(parsed)) = Len(tool.parts)
        /\ \A k \in 1..Len(tool.parts) : Records(parsed)[k][1] = tool.parts[k][1]
        /\ Ids(parsed) = [k \in 1..Len(tool.parts) |-> tool.parts[k][1]]

C2_Witness ==
    /\ Shown /\ WellFormed
    /\ tool.lead # <<>>
    /\ Len(tool.parts) = 2
    /\ Ids(parsed) = << <<"2">>, <<"1">> >>

\* C3: the sentinel, a title line and nothing after it parse to TableOnly:
\* format is token 5 and totalSize token 1 of the title line, there is no
\* partition, show reports 'Cannot find partitions.' and _ids finds no id.
C3_TitleOnlyIsTableOnly ==
    (Shown /\ WellFormed /\ tool.parts = <<>>) =>
        /\ IsTableOnly(parsed)
        /\ parsed.data = << <<tool.title[1][6], tool.title[1][2]>> >>
        /\ Records(parsed) = <<>>
        /\ stdout = <<"fmt  =", "size =", "Cannot find partitions.">>
        /\ Ids(parsed) = <<>>

C3_Witness ==
    /\ Shown /\ tool.sentinel # <<>> /\ tool.parts = <<>>
    /\ tool.title = <<FieldToks(7)>>
    /\ parsed.ret = "list"
    /\ parsed.data = << << <<"f">>, <<"b">> >> >>

\* C4: when the sentinel is the last line, the parser returns NoTable, which
\* show reports as 'Cannot find partition table.', not as 'Cannot parse image.'
C4_SentinelLastIsNoTable ==
    (Shown /\ tool.sentinel # <<>> /\ tool.title = <<>>) =>
        /\ IsNoTable(parsed)
        /\ stdout = <<"Cannot find partition table.">>

\* C5: a non-empty output whose title line has fewer than six tokens parses
\* to None (Unparseable) and nothing is raised.
C5_ShortTitleIsUnparseable ==
    (Shown /\ NonBlank /\ tool.sentinel # <<>> /\ tool.title # <<>> /\ Len(tool.title[1]) < 6) =>
        (IsUnparseable(parsed) /\ raised = "none")

\* the flag names of a flags token: split on ',', blanks trimmed, none if empty
C6_FlagNames(tok) ==
    IF tok = <<>> THEN <<>>
    ELSE LET names == Split(tok, ",")
         IN  [k \in 1..Len(names) |-> Strip(names[k], Whitespace)]

PyList(items) == [py |-> "list", val |-> items]

----------------------------------------------------------------------------
(* Claims about the command handlers, checked under Spec.                  *)

Served(name) == cmd # <<>> /\ cmd[1] = name

\* the argument vector check_call receives for a parted command
C_Argv(cmdlist) == <<"parted", File, "-s">> \o cmdlist

\* C7: set <id> <flag> <state> runs the tool with 'set <id> <flag> <state>' if
\* and only if the report parsed in that call is a table with partitions, id
\* is the id of one of its records, flag is one of the nine flag names and
\* state is on or off; otherwise the tool is not run, and a reason is written
\* whenever the parser returned.
C7_SetRunsIffValid ==
    Served("set") =>
        IF /\ IsTableWithPartitions(parsed)
           /\ \E k \in 1..Len(Records(parsed)) : Records(parsed)[k][1] = cmd[2]
           /\ cmd[3] \in {"boot", "root", "swap", "hidden", "raid", "lvm", "lba",
                          "legacy_boot", "palo"}
           /\ cmd[4] \in {"on", "off"}
        THEN /\ calls = <<C_Argv(<<"set", cmd[2], cmd[3], cmd[4]>>)>>
             /\ stderr = <<>>
        ELSE /\ calls = <<>>
             /\ parsed.ret # "IndexError" => stderr # <<>>

C7_Witness ==
    /\ cmd = <<"set", <<"2">>, "palo", "off">>
    /\ Len(tool.parts) = 2
    /\ calls = << <<"parted", File, "-s", "set", <<"2">>, "palo", "off">> >>

\* the status section 4.1 of the specification gives the tool's report
C8_Status ==
    IF printExit # 0 \/ tool.sentinel = <<>> THEN "Unparseable"
    ELSE IF tool.title = <<>> THEN "NoTable"
    ELSE IF Len(tool.title[1]) < 6 THEN "Unparseable"
    ELSE IF tool.parts = <<>> THEN "TableOnly"
    ELSE "TableWithPartitions"

\* one reason for each violated constraint, in the order id, flag, state
C8_Reasons ==
    (IF \E k \in 1..Len(tool.parts) : tool.parts[k][1] = cmd[2]
     THEN <<>> ELSE <<"set: id is not one of ids">>)
    \o (IF cmd[3] \in {"boot", "root", "swap", "hidden", "raid", "lvm", "lba",
                       "legacy_boot", "palo"}
        THEN <<>> ELSE <<"set: flag is not one of part_flags">>)
    \o (IF cmd[4] \in {"on", "off"}
        THEN <<>> ELSE <<"set: state is not one of ['on', 'off']">>)

\* C8: when the current report has no partitions (Unparseable, NoTable or
\* TableOnly) set writes the single reason 'no partition found'; when it has
\* partitions, set writes one reason for each violated constraint, all in the
\* same call.
C8_RejectionReasons ==
    (Served("set") /\ (printExit = 0 => NonBlank)) =>
        IF C8_Status # "TableWithPartitions"
        THEN stderr = <<"set: no partition found.">>
        ELSE stderr = C8_Reasons

\* The same reporting holds of every call in which __parse_tbl returned: the
\* calls C8_RejectionReasons fails on are those it left by IndexError.
ReasonsWhenParsed ==
    (Served("set") /\ parsed.ret # "IndexError") =>
        IF ~IsTableWithPartitions(parsed)
        THEN stderr = <<"set: no partition found.">>
        ELSE stderr = C8_Reasons

\* C9: mktbl <format> is accepted if and only if format is one of the eight
\* names; accepted, it hands exactly 'mklabel <format>' to the tool; rejected,
\* it hands over nothing; whatever the tool reports about the image.
C9_MktblRunsIffFormat ==
    Served("mktbl") =>
        IF cmd[2] \in {"bsd", "dvh", "gpt", "loop", "mac", "msdos", "pc98", "sun"}
        THEN calls = <<C_Argv(<<"mklabel", cmd[2]>>)>> /\ stderr = <<>>
        ELSE calls = <<>> /\ stderr # <<>>

C9_Witness ==
    /\ cmd = <<"mktbl", "sun">>
    /\ printExit = 1
    /\ calls = << <<"parted", File, "-s", "mklabel", "sun">> >>

\* C10: mkpart <type> <start> <end> is accepted if and only if type is
\* primary, logical or extended; start and end are not validated and reach
\* the tool unchanged and in that order.
C10_MkpartRunsIffType ==
    Served("mkpart") =>
        IF cmd[2] \in {"primary", "logical", "extended"}
        THEN calls = <<C_Argv(<<"mkpart", cmd[2], cmd[3], cmd[4]>>)>> /\ stderr = <<>>
        ELSE calls = <<>> /\ stderr # <<>>

C10_Witness ==
    /\ cmd = <<"mkpart", "logical", "junk", "0%">>
    /\ calls = << <<"parted", File, "-s", "mkpart", "logical", "junk", "0%">> >>

\* C12: a mutating invocation that exits non-zero is recovered where it is
\* run: no exception leaves the handler that ran the tool, whose outcome is
\* then an 'execution failed' report of its own.
C12_ExecutionFailureRecovered ==
    (cmd # <<>> /\ cmd[1] \in {"mktbl", "mkpart", "set"} /\ calls # <<>>) =>
        raised = "none"

----------------------------------------------------------------------------
(* A session: a few command lines served one after the other by the same   *)
(* shell, the tool's report changing with every invocation that succeeds.  *)
(* requests and invoked are the history of the session.                    *)

\* the ids of the partitions the tool has to report
ToolIds ==
    IF printExit = 0 /\ HasLabel(tool)
    THEN [k \in 1..Len(tool.parts) |-> tool.parts[k][1]]
    ELSE <<>>

\* the command lines typed in a session
Typed(line) ==
    \/ line = <<"show">>
    \/ line[1] = "mktbl" /\ line[2] \in {"gpt", "xfs"}
    \/ /\ line[1] = "mkpart" /\ line[2] \in {"primary", "swap"}
       /\ line[3] = "0%" /\ line[4] = "100%"
    \/ /\ line[1] = "set" /\ line[2] \in {<<"1">>, <<"2">>}
       /\ line[3] \in {"boot", "bootable"} /\ line[4] \in {"on", "off"}

\* the handler's line joins the history, with the ids the tool had when it
\* was typed and whether the handler ran the tool to a zero exit
Logged ==
    /\ Len(requests) < MaxRequests
    /\ Typed(cmd')
    /\ requests' = Append(requests,
                          [line |-> cmd', ids |-> ToolIds,
                           ran |-> calls' # <<>> /\ raised' = "none"])
    /\ invoked' = invoked \o calls'

NextSession ==
    \/ do_show /\ Logged /\ Subshell
    \/ do_mktbl /\ Logged /\ Subshell
    \/ do_mkpart /\ Logged /\ Subshell
    \/ do_set /\ Logged /\ Subshell

\* the reports a session starts from: no table, a title line too short, a
\* table without partitions or with one, with the sentinel or without
SessionTools ==
    ToolsOf({<<>>}, {Sentinel}, {FieldToks(3), FieldToks(7)},
            SeqsUpTo({PartToks(<<"1">>, <<>>)}, 1))

InitSession == ToolInit(SessionTools) /\ Idle /\ Unlogged /\ RawImage

SpecSession == InitSession /\ [][NextSession]_vars

----------------------------------------------------------------------------
(* Claims about a session, checked under SpecSession.                      *)

\* whether the request is one section 4.2 of the specification accepts
C11_Accepted(e) ==
    IF e.line[1] = "mktbl"
    THEN e.line[2] \in {"bsd", "dvh", "gpt", "loop", "mac", "msdos", "pc98", "sun"}
    ELSE IF e.line[1] = "mkpart"
    THEN e.line[2] \in {"primary", "logical", "extended"}
    ELSE IF e.line[1] = "set"
    THEN /\ \E k \in 1..Len(e.ids) : e.ids[k] = e.line[2]
         /\ e.line[3] \in {"boot", "root", "swap", "hidden", "raid", "lvm", "lba",
                            "legacy_boot", "palo"}
         /\ e.line[4] \in {"on", "off"}
    ELSE FALSE

\* the argument vector an accepted request is to reach the tool with
C11_Argv(e) ==
    IF e.line[1] = "mktbl" THEN C_Argv(<<"mklabel", e.line[2]>>)
    ELSE IF e.line[1] = "mkpart"
    THEN C_Argv(<<"mkpart", e.line[2], e.line[3], e.line[4]>>)
    ELSE C_Argv(<<"set", e.line[2], e.line[3], e.line[4]>>)

RECURSIVE C11_Expected(_)
C11_Expected(reqs) ==
    IF reqs = <<>> THEN <<>>
    ELSE (IF C11_Accepted(Head(reqs)) THEN <<C11_Argv(Head(reqs))>> ELSE <<>>)
         \o C11_Expected(Tail(reqs))

\* C11: over a session the tool is run exactly once for every accepted
\* mktbl, mkpart and set, with that request's argument vector and in the
\* order of the requests, and never for a rejected request or for show.
C11_OncePerAcceptedRequest == invoked = C11_Expected(requests)

C11_Witness ==
    /\ Len(requests) = 2
    /\ requests[1].line = <<"mkpart", "primary", "0%", "100%">>
    /\ requests[2].line = <<"set", <<"2">>, "boot", "on">>
    /\ invoked = << <<"parted", File, "-s", "mkpart", "primary", "0%", "100%">>,
                    <<"parted", File, "-s", "set", <<"2">>, "boot", "on">> >>

\* the request being served, and whether an earlier request of the session
\* ran the tool to a zero exit
C14_Last == requests[Len(requests)]
C14_AfterMutation ==
    /\ requests # <<>>
    /\ \E j \in 1..(Len(requests) - 1) : requests[j].ran

\* C14: the report is read anew from the tool on every query: after a
\* mutating command, show prints the table the tool has now, and set takes an
\* id exactly when the tool has a partition of that id now, reporting 'no
\* partition found' exactly when it has none.
C14_ReportIsCurrent ==
    C14_AfterMutation =>
        /\ Served("show") =>
               stdout = IF C14_Last.ids = <<>>
                        THEN <<"fmt  =", "size =", "Cannot find partitions.">>
                        ELSE <<"fmt  =", "size =", "table">>
        /\ Served("set") =>
               /\ (stderr = <<"set: no partition found.">>) <=> (C14_Last.ids = <<>>)
               /\ C14_Last.ids # <<>> =>
                      ((\E m \in 1..Len(stderr) : stderr[m] = "set: id is not one of ids")
                           <=> ~\E k \in 1..Len(C14_Last.ids) : C14_Last.ids[k] = cmd[2])
               /\ (calls # <<>>) <=> C11_Accepted(C14_Last)

\* a partition made by mkpart is taken by the set that follows
C14_Witness ==
    /\ Len(requests) = 2
    /\ requests[1].line = <<"mkpart", "primary", "0%", "100%">>
    /\ requests[1].ids = << <<"1">> >> /\ requests[1].ran
    /\ requests[2].ids = << <<"1">>, <<"2">> >>
    /\ cmd = <<"set", <<"2">>, "boot", "on">>
    /\ calls # <<>>

\* a table erased by mktbl leaves the set that follows no partition
C14_WitnessErased ==
    /\ Len(requests) = 2
    /\ requests[1].line = <<"mktbl", "gpt">>
    /\ requests[1].ids = << <<"1">> >> /\ requests[1].ran
    /\ requests[2].ids = <<>>
    /\ cmd = <<"set", <<"1">>, "boot", "on">>
    /\ stderr = <<"set: no partition found.">>

----------------------------------------------------------------------------
(* Further claims about the parser, checked under SpecParse.               *)

\* C13: the ids of the records of one report are pairwise distinct, whatever
\* text the tool printed.
C13_IdsDistinct ==
    (Shown /\ WellFormed /\ \A k \in 1..Len(tool.parts) : Len(tool.parts[k]) = 7) =>
        \A i, j \in 1..Len(Ids(parsed)) :
            i # j => Ids(parsed)[i] # Ids(parsed)[j]

----------------------------------------------------------------------------
(* Claims about the image shell, checked under SpecImage.                  *)

\* C16: a listing that ls prints is never older than the image: whichever of
\* dev, fs and part is asked for, the text printed is the one the tool gives
\* for the file as it is now, not one fetched before the file's mtime last
\* changed.
C16_NoStaleListing ==
    (Served("ls") /\ cmd[2] \in {"dev", "fs", "part"} /\ raised = "none") =>
        stdout = <<Listing(cmd[2])>>

\* C17: set <attribute> <value> with attribute one of file, format and size
\* stores the value, which get then shows for that attribute.
C17_SetStoresValue ==
    (Served("set") /\ cmd[2] \in {"file", "format", "size"}) =>
        /\ raised = "none"
        /\ Format(GetAttr(cmd[2])) = cmd[3]

\* What C17 says holds of format and size, and of names that are no
\* attribute: the calls C17_SetStoresValue fails on are those of `set file`.
SetStoresFormatAndSize ==
    Served("set") =>
        /\ cmd[2] \in {"format", "size"} =>
               /\ raised = "none" /\ stderr = <<>>
               /\ self[cmd[2]] = [py |-> "str", val |-> cmd[3]]
        /\ cmd[2] \notin {"file", "format", "size"} =>
               raised = "none" /\ stderr # <<>>

\* C18: the stored modification time exists whenever the validity check
\* reads it: no ls ends in an AttributeError, not even in a shell opened on a
\* file that create made only later.
C18_MtimeIsDefined == Served("ls") => raised # "AttributeError"

====
